---- MODULE Spec2Model ----
(***************************************************************************)
(* Model of the Grafana alerting resources of the provider: the contact    *)
(* point reconciliation (readContactPoint, updateContactPoint,             *)
(* deleteContactPoint and the pack/unpack helpers), the mute timing        *)
(* handlers, and the alerting mutex that serialises them.                  *)
(*                                                                         *)
(* The backend (the Grafana provisioning API) is the environment: a set of *)
(* contact point records and a set of mute timings, each call either       *)
(* succeeding atomically or failing without an effect.                     *)
(***************************************************************************)
EXTENDS Integers, Sequences, FiniteSets, TLC

\* ------------------------------------------------------------------ bounds

\* Worker goroutines that run resource handlers concurrently.
NProcs == 2
\* Handlers begun in a behaviour.
MaxOps == 2
\* Notifier instances in one desired configuration.
MaxInst == 2
\* UIDs the backend assigns in a behaviour.
MaxUID == 6
\* Backoff waits that fit in the create retry budget (2 minutes of waits).
RetryTicks == 3
\* Length of a settings value of the codec specification.
MaxValLen == 1
\* Entries of monthNums the model keeps, from january on.
NMonths == 4
\* IDs the backend assigns to users.
MaxUsers == 3

\* ------------------------------------------------------------- the registry

\* The notifier registry, reduced to two of its kinds.  Positions give the
\* registry order that unpackContactPoints and packContactPoints iterate.
notifiers ==
    << [field |-> "email",   typeStr |-> "email",   secureFields |-> {}],
       [field |-> "webhook", typeStr |-> "webhook", secureFields |-> {"password"}] >>

Kinds == 1..Len(notifiers)
Fields == {notifiers[n].field : n \in Kinds}
TypeTags == {notifiers[n].typeStr : n \in Kinds}
\* A type tag of the backend that no registered notifier carries.
UnknownType == "sns"

\* ------------------------------------------------------------ string values

\* A string is a sequence of characters; DQ and BS are the two characters
\* strconv.Quote escapes.
DQ == "\""
BS == "\\"
Chars == {"a", DQ, BS}

RECURSIVE EscapeChars(_)
EscapeChars(s) ==
    IF s = <<>> THEN <<>>
    ELSE (IF Head(s) \in {DQ, BS} THEN <<BS, Head(s)>> ELSE <<Head(s)>>)
         \o EscapeChars(Tail(s))

\* fmt.Sprintf("%#v", v): a string prints as its quoted Go literal, a bool as
\* true or false.
GoSyntax(v) ==
    IF v.t = "str" THEN <<DQ>> \o EscapeChars(v.v) \o <<DQ>>
    ELSE IF v.v THEN <<"t", "r", "u", "e">> ELSE <<"f", "a", "l", "s", "e">>

\* A backend settings value: a JSON string or a JSON bool.
StrVal(s) == [t |-> "str", v |-> s]
EmptyStr == StrVal(<<>>)

\* A map is a function on its key set.
EmptyMap == [k \in {} |-> 0]
MapDelete(m, ks) == [k \in DOMAIN m \ ks |-> m[k]]

\* ---------------------------------------------------------------- the codec

unpackCommonNotifierFields(raw) ==
    <<raw.uid, raw.disable_resolve_message, raw.settings>>

\* notifier.unpack of a kind with no typed field of its own: the common
\* fields, the settings map sent as JSON strings, the kind's type tag.
NotifierUnpack(n, raw, name) ==
    LET c == unpackCommonNotifierFields(raw) IN
    [UID |-> c[1], Name |-> name, Type |-> notifiers[n].typeStr,
     DisableResolveMessage |-> c[2],
     Settings |-> [k \in DOMAIN c[3] |-> StrVal(c[3][k])]]

\* Treat settings like omitempty.
unpackPointConfig(n, raw, name) ==
    LET pt == NotifierUnpack(n, raw, name) IN
    [pt EXCEPT !.Settings =
        MapDelete(pt.Settings, {k \in DOMAIN pt.Settings : pt.Settings[k] = EmptyStr})]

packCommonNotifierFieldsMutNoUID(p) ==
    [uid |-> "", disable_resolve_message |-> p.DisableResolveMessage]

packCommonNotifierFields(p) ==
    [uid |-> p.UID, disable_resolve_message |-> p.DisableResolveMessage]

packSettings(p) ==
    [k \in DOMAIN p.Settings |-> GoSyntax(p.Settings[k])]

\* notifier.pack of a kind with no typed field of its own.
NotifierPack(n, p) ==
    LET c == packCommonNotifierFields(p) IN
    [uid |-> c.uid, disable_resolve_message |-> c.disable_resolve_message,
     settings |-> packSettings(p)]

\* ---------------------------------------------------------------- the state

Procs == 1..NProcs
\* The contact point and the mute timing the resources of the model declare.
Names == {"N", "M"}
ResName == "N"
MuteName == "T"
\* UIDs in the order the backend assigns them; the first three may exist
\* before the provider runs.
UIDNames == <<"u1", "u2", "u3", "u4", "u5", "u6", "u7", "u8", "u9">>
UIDs == {UIDNames[i] : i \in 1..Len(UIDNames)}

VARIABLES
    remote,         \* backend: the contact point records
    nextUID,        \* backend: index of the next UID it assigns
    muteTimings,    \* backend: names of the mute timings
    orgID,          \* the organization of the resources
    lock,           \* alertingMutex: 0 when free, else the holder
    crashed,        \* the provider process died of a panic
    op,             \* per worker: the handler it runs
    pc,             \* per worker: its position in the handler
    nops,           \* per worker: handlers started
    data,           \* per worker: schema.ResourceData of its contact point
    mtId,           \* per worker: identifier of its mute timing resource
    ps,             \* per worker: []statePair of updateContactPoint
    idx,            \* per worker: loop index (apply loop, delete loop)
    currentPoints,  \* per worker: currentPoints of updateContactPoint
    processedUIDs,  \* per worker: processedUIDs of updateContactPoint
    elapsed,        \* per worker: waits spent in retry.RetryContext
    points,         \* per worker: points of readContactPoint
    diags,          \* per worker: what the handler returned
    calls,          \* per worker: backend calls of the running handler
    pre,            \* per worker: the backend and the identifier when the handler began
    ctxDone,        \* per worker: the context of the handler is cancelled or past its deadline
    codec,          \* the codec round trip: the instance and what became of it
    month,          \* suppressMonthDiff: its arguments and its local variables
    secure,         \* packing two backend responses against one prior state
    user            \* CreateUser: the user resource, its handler and the backend's users

vars == <<remote, nextUID, muteTimings, orgID, lock, crashed, op, pc, nops,
          data, mtId, ps, idx, currentPoints, processedUIDs, elapsed, points,
          diags, calls, pre, ctxDone, codec, month, secure, user>>

backendVars == <<remote, nextUID, muteTimings>>
localVars == <<ps, idx, currentPoints, processedUIDs, elapsed, points>>
\* The state of the pure functions, which no handler step touches.
pureVars == <<codec, month, secure, user>>

\* ------------------------------------------------------------- identifiers

NoId == [fmt |-> "none", org |-> 0, name |-> "", uids |-> {}]
MakeOrgResourceID(org, name) == [fmt |-> "org", org |-> org, name |-> name, uids |-> {}]
\* The deprecated identifier uid;uid2;uid3.
LegacyId(us) == [fmt |-> "uids", org |-> 0, name |-> "", uids |-> us]

\* What no contact point is named and no UID is: an identifier read as a name
\* or as a UID.  UIDs hold neither ':' nor ';'.
Verbatim(id) == IF id.fmt = "org" THEN "1:N" ELSE "uid;uid"

\* OAPIClientFromExistingOrgResource: the name part of org:name; an
\* identifier without an organization is the name as a whole.
NameOfId(id) == IF id.fmt = "org" THEN id.name ELSE Verbatim(id)

\* strings.Split(data.Id(), ";")
SplitIdMutWhole(id) == {Verbatim(id)}

SplitId(id) == IF id.fmt = "uids" THEN id.uids ELSE {Verbatim(id)}

\* --------------------------------------------------------------- diagnostics

NoErr == [api |-> FALSE, code |-> 0, what |-> "", uids |-> {}, names |-> {}]
\* A *runtime.APIError with a status code.
APIError(c) == [api |-> TRUE, code |-> c, what |-> "api", uids |-> {}, names |-> {}]
\* An error of another type: a typed response, a transport error.
OtherError == [api |-> FALSE, code |-> 0, what |-> "other", uids |-> {}, names |-> {}]
Described(w, us, ns) == [api |-> FALSE, code |-> 0, what |-> w, uids |-> us, names |-> ns]
IsNotFoundError(e) == e.api /\ e.code = 404

CreateErrors == {APIError(500), APIError(502), OtherError}
CallErrors == {APIError(500)}
ListErrors == {APIError(404), APIError(500)}

NoDiag == [kind |-> "none", err |-> NoErr]
Ok == [kind |-> "ok", err |-> NoErr]
FromErr(e) == [kind |-> "error", err |-> e]
\* common.WarnMissing: a warning; the resource leaves the state.
WarnMissing == [kind |-> "missing", err |-> NoErr]
Panic == [kind |-> "panic", err |-> NoErr]

\* ------------------------------------------------------------------ helpers

RECURSIVE Perms(_)
Perms(S) ==
    IF S = {} THEN {<<>>}
    ELSE UNION {{<<x>> \o s : s \in Perms(S \ {x})} : x \in S}

Range(s) == {s[i] : i \in 1..Len(s)}
ByName(name) == {r \in remote : r.Name = name}
UIDIndex(u) == CHOOSE i \in 1..Len(UIDNames) : UIDNames[i] = u
\* A set of records as the backend lists it by name: in the order it stored them.
RECURSIVE Listed(_)
Listed(S) ==
    IF S = {} THEN <<>>
    ELSE LET r == CHOOSE r \in S : \A q \in S : UIDIndex(r.UID) <= UIDIndex(q.UID)
         IN <<r>> \o Listed(S \ {r})
EmptyFields == [f \in Fields |-> {}]
NewData == [id |-> NoId, name |-> ResName, isNew |-> TRUE, fields |-> EmptyFields]
Instances(d) == UNION {d.fields[f] : f \in Fields}
\* The handler a worker ran before: its desired configuration, what it
\* returned, and how many of its create and update calls succeeded.
NoPrev == [op |-> "none", fields |-> EmptyFields, kind |-> "none", applied |-> 0]
NoPre == [remote |-> {}, next |-> 0, id |-> NoId, fields |-> EmptyFields, prev |-> NoPrev]
Tagged(fields) == UNION {{<<f, x>> : x \in fields[f]} : f \in Fields}
NumInstances(d) == Cardinality(Tagged(d.fields))

\* One backend call of a handler: d is Ok or the error it failed with.
Call(c, u, d) == [call |-> c, uid |-> u, ok |-> d.kind = "ok", err |-> d.err]

\* -------------------------------------------------------------------- Init

\* Records the backend may hold before the provider runs: two under the name
\* of the resource, one of them of a type no notifier has, and one under
\* another name.
Rec(u, name, type) ==
    [UID |-> u, Name |-> name, Type |-> type, DisableResolveMessage |-> FALSE,
     Settings |-> EmptyMap]

Existing == {Rec("u1", "N", "webhook"), Rec("u2", "N", UnknownType), Rec("u3", "M", "email")}

InitRemotes == {{}, {Rec("u1", "N", "webhook"), Rec("u2", "N", UnknownType)}, Existing}

\* ------------------------------------------------------ the handlers' inputs

\* The generic settings a configuration of the model may declare.
SettingsChoices == {EmptyMap, [k \in {"k"} |-> <<"a">>]}
Inst(u, s) == [uid |-> u, disable_resolve_message |-> FALSE, settings |-> s]

\* Field values of a configuration: at least one instance (AtLeastOneOf), at
\* most MaxInst, no UID twice; its instances declare the same settings.
FieldsOver(cands) ==
    { [f \in Fields |-> {Inst(t[2], s) : t \in {c \in T : c[1] = f}}] :
        T \in {T \in SUBSET cands :
                 /\ Cardinality(T) \in 1..MaxInst
                 /\ \A a, b \in T : (a[2] # "" /\ a[2] = b[2]) => a = b},
        s \in SettingsChoices }

\* A new resource: uid is Computed, so no instance carries one.
DesiredNew == FieldsOver({<<f, "">> : f \in Fields})

\* A planned update: an instance of the state keeps its UID, whatever its
\* settings become; an added instance has none.
DesiredUpd(d) ==
    FieldsOver({<<f, "">> : f \in Fields} \cup {<<t[1], t[2].uid>> : t \in Tagged(d.fields)})

\* unpackContactPoints: the kinds in registry order, a kind's instances in
\* the order of schema.Set.List().
RECURSIVE unpackFrom(_, _)
unpackFrom(d, n) ==
    IF n > Len(notifiers) THEN {<<>>}
    ELSE { a \o b :
             a \in { [i \in 1..Len(l) |->
                        [n |-> n, tfState |-> l[i],
                         gfState |-> unpackPointConfig(n, l[i], d.name)]] :
                     l \in Perms(d.fields[notifiers[n].field]) },
             b \in unpackFrom(d, n + 1) }

unpackContactPoints(d) == unpackFrom(d, 1)

\* ----------------------------------------------------- starting a handler

\* common.WithAlertingMutex wraps these handlers of ResourceContactPoint and
\* ResourceMuteTiming; the read handlers are registered bare.
WithAlertingMutexMutBareDelete ==
    {"cpCreate", "cpUpdate", "mtCreate", "mtUpdate", "mtDelete"}

WithAlertingMutex ==
    {"cpCreate", "cpUpdate", "cpDelete", "mtCreate", "mtUpdate", "mtDelete"}

FirstStep(o) ==
    CASE o \in {"cpCreate", "cpUpdate"} -> "unpack"
      [] o = "cpDelete" -> "delFetch"
      [] o \in {"cpRead", "cpImport"} -> "read"
      [] o = "mtCreate" -> "mtPost"
      [] o = "mtUpdate" -> "mtPut"
      [] o = "mtDelete" -> "mtDelete"
      [] o = "mtRead" -> "mtRead"

RECURSIVE SumOver(_, _)
SumOver(f, S) == IF S = {} THEN 0 ELSE LET x == CHOOSE x \in S : TRUE IN f[x] + SumOver(f, S \ {x})
OpsBegun == SumOver(nops, Procs)

Begin(p, o, d) ==
    /\ ~crashed
    /\ pc[p] = "idle"
    /\ OpsBegun < MaxOps
    /\ op' = [op EXCEPT ![p] = o]
    /\ nops' = [nops EXCEPT ![p] = @ + 1]
    /\ data' = [data EXCEPT ![p] = d]
    /\ pc' = [pc EXCEPT ![p] = IF o \in WithAlertingMutex THEN "lock" ELSE FirstStep(o)]
    /\ diags' = [diags EXCEPT ![p] = NoDiag]
    /\ calls' = [calls EXCEPT ![p] = <<>>]
    /\ pre' = [pre EXCEPT ![p] = [remote |-> remote, next |-> nextUID, id |-> d.id,
                                  fields |-> d.fields, prev |-> pre[p].prev]]
    /\ idx' = [idx EXCEPT ![p] = 0]
    /\ ps' = [ps EXCEPT ![p] = <<>>]
    /\ currentPoints' = [currentPoints EXCEPT ![p] = <<>>]
    /\ processedUIDs' = [processedUIDs EXCEPT ![p] = {}]
    /\ elapsed' = [elapsed EXCEPT ![p] = 0]
    /\ points' = [points EXCEPT ![p] = <<>>]
    /\ UNCHANGED <<backendVars, orgID, ctxDone, pureVars, lock, crashed, mtId>>

\* Create of a resource that is not in the state, with a configuration of F.
BeginCreateOf(p, F) ==
    /\ data[p].id = NoId
    /\ \E f \in F :
         Begin(p, "cpCreate", [NewData EXCEPT !.fields = f])

BeginCreate(p) == BeginCreateOf(p, DesiredNew)

\* Update of a resource of the state to a planned configuration of F.
BeginUpdateOf(p, F) ==
    /\ data[p].id.fmt = "org"
    /\ \E f \in F :
         Begin(p, "cpUpdate", [data[p] EXCEPT !.fields = f, !.isNew = FALSE])

BeginUpdate(p) == BeginUpdateOf(p, DesiredUpd(data[p]))

BeginDelete(p) ==
    /\ data[p].id.fmt = "org"
    /\ Begin(p, "cpDelete", [data[p] EXCEPT !.isNew = FALSE])

\* Refresh of a resource of the state.
BeginRead(p) ==
    /\ data[p].id.fmt = "org"
    /\ Begin(p, "cpRead", [data[p] EXCEPT !.isNew = FALSE])

\* Import: ImportStatePassthroughContext sets the identifier as given, the
\* composite org:name or the deprecated UID list, and the read follows.
BeginImportOf(p, I) ==
    /\ data[p].id = NoId
    /\ \E id \in I :
         Begin(p, "cpImport", [NewData EXCEPT !.id = id, !.isNew = FALSE])

BeginImport(p) ==
    BeginImportOf(p, {MakeOrgResourceID(orgID, ResName)}
                     \cup {LegacyId(us) : us \in SUBSET {"u1", "u2", "u3"} \ {{}}})

BeginMuteTiming(p) ==
    \E o \in {"mtCreate", "mtUpdate", "mtDelete", "mtRead"} :
        /\ (o = "mtCreate") = (mtId[p] = "")
        /\ Begin(p, o, data[p])

\* lock.Lock() of WithAlertingMutex.
Lock(p) ==
    /\ ~crashed
    /\ pc[p] = "lock"
    /\ lock = 0
    /\ lock' = p
    /\ pc' = [pc EXCEPT ![p] = FirstStep(op[p])]
    /\ UNCHANGED <<backendVars, orgID, ctxDone, pureVars, crashed, op, nops, data, mtId, localVars,
                   diags, calls, pre>>

\* The handler returns: the deferred lock.Unlock() of WithAlertingMutex runs.
Unlocked(p) == IF lock = p THEN 0 ELSE lock

\* The handler returns d: the diagnostics are the caller's, the mutex is free.
Return(p, d) ==
    /\ diags' = [diags EXCEPT ![p] = d]
    /\ pc' = [pc EXCEPT ![p] = "done"]
    /\ lock' = Unlocked(p)
    /\ crashed' = (crashed \/ d.kind = "panic")

Logged(p, c) == calls' = [calls EXCEPT ![p] = Append(@, c)]

\* -------------------------------------------------------- updateContactPoint

\* !data.IsNewResource() guards the fetch of the current state.
SkipsFetchMutNever(d) == FALSE

SkipsFetch(d) == d.isNew

\* ps := unpackContactPoints(data)
Unpack(p) ==
    /\ ~crashed
    /\ pc[p] = "unpack"
    /\ \E l \in unpackContactPoints(data[p]) : ps' = [ps EXCEPT ![p] = l]
    /\ idx' = [idx EXCEPT ![p] = 1]
    /\ pc' = [pc EXCEPT ![p] = IF SkipsFetch(data[p]) THEN "apply" ELSE "fetch"]
    /\ UNCHANGED <<backendVars, orgID, ctxDone, pureVars, lock, crashed, op, nops, data, mtId,
                   currentPoints, processedUIDs, elapsed, points, diags, calls, pre>>

\* The fetch of the current state of an existing contact point: not found
\* leaves currentPoints empty, any other error is returned.
FetchCurrent(p) ==
    /\ ~crashed
    /\ pc[p] = "fetch"
    /\ \E res \in {<<"ok", Listed(ByName(data[p].name))>>}
                  \cup {<<"err", e>> : e \in ListErrors} :
         IF res[1] = "err" /\ ~IsNotFoundError(res[2])
         THEN /\ Return(p, FromErr(res[2]))
              /\ Logged(p, Call("list", "", FromErr(res[2])))
              /\ UNCHANGED currentPoints
         ELSE /\ currentPoints' =
                    [currentPoints EXCEPT ![p] = IF res[1] = "ok" THEN res[2] ELSE <<>>]
              /\ Logged(p, Call("list", "", IF res[1] = "ok" THEN Ok ELSE FromErr(res[2])))
              /\ pc' = [pc EXCEPT ![p] = "apply"]
              /\ UNCHANGED <<diags, lock, crashed>>
    /\ UNCHANGED <<backendVars, orgID, ctxDone, pureVars, op, nops, data, mtId, ps, idx,
                   processedUIDs, elapsed, points, pre>>

\* The end of one round of the apply loop: the UID is recorded on the
\* instance and in processedUIDs.
AppliedMutNoProcessed(p, uid) ==
    /\ ps' = [ps EXCEPT ![p][idx[p]].tfState.uid = uid]
    /\ processedUIDs' = processedUIDs
    /\ idx' = [idx EXCEPT ![p] = IF idx[p] = Len(ps[p]) THEN 1 ELSE @ + 1]
    /\ pc' = [pc EXCEPT ![p] = IF idx[p] = Len(ps[p]) THEN "delete" ELSE "apply"]
    /\ elapsed' = [elapsed EXCEPT ![p] = 0]
    /\ UNCHANGED <<diags, lock, crashed>>

Applied(p, uid) ==
    /\ ps' = [ps EXCEPT ![p][idx[p]].tfState.uid = uid]
    /\ processedUIDs' = [processedUIDs EXCEPT ![p] = @ \cup {uid}]
    /\ idx' = [idx EXCEPT ![p] = IF idx[p] = Len(ps[p]) THEN 1 ELSE @ + 1]
    /\ pc' = [pc EXCEPT ![p] = IF idx[p] = Len(ps[p]) THEN "delete" ELSE "apply"]
    /\ elapsed' = [elapsed EXCEPT ![p] = 0]
    /\ UNCHANGED <<diags, lock, crashed>>

\* An instance with a UID is updated.
HasUID(sp) == sp.tfState.uid # ""

\* PutContactpoint: the backend replaces the record of that UID, and answers
\* 404 when it holds none.
PutContactpoint(p) ==
    /\ ~crashed
    /\ pc[p] = "apply"
    /\ HasUID(ps[p][idx[p]])
    /\ LET sp == ps[p][idx[p]]
           uid == sp.tfState.uid
           old == {r \in remote : r.UID = uid}
       IN \E res \in {Ok} \cup {FromErr(e) : e \in CallErrors} :
            LET got == IF res = Ok /\ old = {} THEN FromErr(APIError(404)) ELSE res IN
            /\ Logged(p, Call("update", uid, got))
            /\ IF got = Ok
               THEN /\ remote' = (remote \ old) \cup {[sp.gfState EXCEPT !.UID = uid]}
                    /\ Applied(p, uid)
               ELSE /\ Return(p, got)
                    /\ UNCHANGED <<remote, ps, idx, processedUIDs, elapsed>>
    /\ UNCHANGED <<nextUID, muteTimings, orgID, ctxDone, pureVars, op, nops, data, mtId,
                   currentPoints, points, pre>>

\* The function retry.RetryContext runs: what one failed attempt returns.
\* The type assertion err.(*runtime.APIError) panics on an error of another
\* type; it is evaluated only when orgID > 1.
RetryFunc(org, e) ==
    IF org > 1
    THEN IF ~e.api THEN "panic"
         ELSE IF e.code = 500 THEN "retryable" ELSE "nonretryable"
    ELSE "nonretryable"

\* PostContactpoints inside retry.RetryContext: the backend stores the record
\* under a UID of its own, or fails and stores nothing.
PostContactpoints(p) ==
    /\ ~crashed
    /\ pc[p] = "apply"
    /\ ~HasUID(ps[p][idx[p]])
    /\ LET sp == ps[p][idx[p]] IN
       \E res \in {r \in {Ok} : nextUID <= MaxUID} \cup {FromErr(e) : e \in CreateErrors} :
         IF res = Ok
         THEN LET uid == UIDNames[nextUID] IN
              /\ remote' = remote \cup {[sp.gfState EXCEPT !.UID = uid]}
              /\ nextUID' = nextUID + 1
              /\ Logged(p, Call("create", uid, Ok))
              /\ Applied(p, uid)
         ELSE /\ Logged(p, Call("create", "", res))
              /\ UNCHANGED <<remote, nextUID, ps, idx, processedUIDs, elapsed>>
              /\ CASE RetryFunc(orgID, res.err) = "retryable" ->
                        /\ pc' = [pc EXCEPT ![p] = "retrywait"]
                        /\ UNCHANGED <<diags, lock, crashed>>
                   [] RetryFunc(orgID, res.err) = "nonretryable" -> Return(p, res)
                   [] RetryFunc(orgID, res.err) = "panic" -> Return(p, Panic)
    /\ UNCHANGED <<muteTimings, orgID, ctxDone, pureVars, op, nops, data, mtId, currentPoints, points, pre>>

\* The timeout of retry.RetryContext, 2*time.Minute, in waits.
TimedOutMutLate(e) == e >= RetryTicks + 1

TimedOut(e) == e >= RetryTicks

\* retry.RetryContext between two attempts: it waits, and gives up with the
\* last error once the timeout has passed.
RetryWait(p) ==
    /\ ~crashed
    /\ pc[p] = "retrywait"
    /\ elapsed' = [elapsed EXCEPT ![p] = @ + 1]
    /\ IF TimedOut(elapsed[p] + 1)
       THEN Return(p, FromErr(APIError(500)))
       ELSE /\ pc' = [pc EXCEPT ![p] = "apply"]
            /\ UNCHANGED <<diags, lock, crashed>>
    /\ UNCHANGED <<backendVars, orgID, ctxDone, pureVars, op, nops, data, mtId, ps, idx,
                   currentPoints, processedUIDs, points, calls, pre>>

\* retry.RetryContext(ctx, ...): the retry waits on the context of the
\* handler.
RetryCtxMutBackground == FALSE

RetryCtx == TRUE

\* The context is cancelled, or its deadline passes, while a create is being
\* retried: retry.RetryContext returns at once, with the error of the last
\* attempt.
CtxDone(p) ==
    /\ ~crashed
    /\ ~ctxDone[p]
    /\ pc[p] = "retrywait" \/ (pc[p] = "apply" /\ elapsed[p] > 0)
    /\ ctxDone' = [ctxDone EXCEPT ![p] = TRUE]
    /\ IF RetryCtx
       THEN Return(p, FromErr(APIError(500)))
       ELSE UNCHANGED <<pc, diags, lock, crashed>>
    /\ UNCHANGED <<backendVars, orgID, pureVars, op, nops, data, mtId, localVars,
                   calls, pre>>

\* A record of the current state that is not in the proposed state.
ToDeleteMutAll(pt, processed) == TRUE
ToDeleteMutProcessed(pt, processed) == pt.UID \in processed

ToDelete(pt, processed) == pt.UID \notin processed

\* The delete loop over currentPoints, one DeleteContactpoints call a step;
\* past its end the identifier is set and the read follows.
DeleteStale(p) ==
    /\ ~crashed
    /\ pc[p] = "delete"
    /\ LET cand == {j \in idx[p]..Len(currentPoints[p]) :
                      ToDelete(currentPoints[p][j], processedUIDs[p])}
       IN IF cand = {}
          THEN /\ data' = [data EXCEPT ![p].id = MakeOrgResourceID(orgID, data[p].name)]
               /\ pc' = [pc EXCEPT ![p] = "read"]
               /\ UNCHANGED <<remote, idx, diags, lock, crashed, calls>>
          ELSE LET j == CHOOSE j \in cand : \A k \in cand : j <= k
                   pt == currentPoints[p][j]
               IN \E res \in {Ok} \cup {FromErr(e) : e \in CallErrors} :
                    /\ Logged(p, Call("delete", pt.UID, res))
                    /\ UNCHANGED data
                    /\ IF res = Ok
                       THEN /\ remote' = {r \in remote : r.UID # pt.UID}
                            /\ idx' = [idx EXCEPT ![p] = j + 1]
                            /\ UNCHANGED <<pc, diags, lock, crashed>>
                       ELSE /\ Return(p, FromErr(Described("delete", {pt.UID}, {pt.Name})))
                            /\ UNCHANGED <<remote, idx>>
    /\ UNCHANGED <<nextUID, muteTimings, orgID, ctxDone, pureVars, op, nops, mtId, ps, currentPoints,
                   processedUIDs, elapsed, points, pre>>

\* ----------------------------------------------------------- readContactPoint

\* *p.Type == n.meta().typeStr
TypeMatchesMutAny(pt, n) == TRUE

TypeMatches(pt, n) == pt.Type = notifiers[n].typeStr

\* pointsPerNotifier[n] of packContactPoints: the packed records of kind n in
\* the order of ps; a kind with no record has no entry (the empty list).
RECURSIVE packedOfKind(_, _)
packedOfKind(pts, n) ==
    IF pts = <<>> THEN <<>>
    ELSE (IF TypeMatches(Head(pts), n) THEN <<NotifierPack(n, Head(pts))>> ELSE <<>>)
         \o packedOfKind(Tail(pts), n)

pointsPerNotifier(pts) == [n \in Kinds |-> packedOfKind(pts, n)]

KindOfField(f) == CHOOSE n \in Kinds : notifiers[n].field = f

\* packContactPoints: the name of the last record, and every kind that has a
\* packed record set to its list (a schema.Set); the other kinds are not set.
packContactPoints(pts, d) ==
    LET ppn == pointsPerNotifier(pts) IN
    [d EXCEPT !.name = pts[Len(pts)].Name,
              !.fields = [f \in Fields |->
                            IF ppn[KindOfField(f)] # <<>>
                            THEN Range(ppn[KindOfField(f)])
                            ELSE d.fields[f]]]

\* The loop over the whole listing of the deprecated UID lookup: the records
\* whose UID is in uidsMap, up to the first whose name differs from the first
\* match's.  i is the position in the listing, from 1.
\* i > 0 && p.Name != points[0].Name, i the position in the listing from 1.
NameDiffersMutLate(i, pt, first) == i > 2 /\ pt.Name # first.Name

NameDiffers(i, pt, first) == i > 1 /\ pt.Name # first.Name

RECURSIVE LegacyScan(_, _, _, _)
LegacyScan(payload, i, uids, pts) ==
    IF i > Len(payload) THEN [err |-> NoErr, points |-> pts]
    ELSE LET pt == payload[i] IN
         IF pt.UID \notin uids THEN LegacyScan(payload, i + 1, uids, pts)
         ELSE LET more == Append(pts, pt) IN
              IF NameDiffers(i, pt, more[1])
              THEN [err |-> Described("different name", {pt.UID, more[1].UID},
                                      {pt.Name, more[1].Name}),
                    points |-> more]
              ELSE LegacyScan(payload, i + 1, uids, more)

\* The end of a successful read: the records are packed, org_id and the
\* identifier are set.
Packed(p, pts) ==
    /\ points' = [points EXCEPT ![p] = pts]
    /\ data' = [data EXCEPT ![p] =
                  [packContactPoints(pts, data[p]) EXCEPT
                      !.id = MakeOrgResourceID(orgID, pts[1].Name)]]
    /\ Return(p, Ok)

\* GetContactpoints by name, the first call of readContactPoint.
ReadByName(p) ==
    /\ ~crashed
    /\ pc[p] = "read"
    /\ \E res \in {<<"ok", Listed(ByName(NameOfId(data[p].id)))>>}
                  \cup {<<"err", e>> : e \in ListErrors} :
         /\ Logged(p, Call("list", "", IF res[1] = "ok" THEN Ok ELSE FromErr(res[2])))
         /\ IF res[1] = "err"
            THEN /\ Return(p, FromErr(res[2]))
                 /\ UNCHANGED <<points, data>>
            ELSE IF res[2] # <<>>
            THEN Packed(p, res[2])
            ELSE /\ pc' = [pc EXCEPT ![p] = "readAll"]
                 /\ UNCHANGED <<points, data, diags, lock, crashed>>
    /\ UNCHANGED <<backendVars, orgID, ctxDone, pureVars, op, nops, mtId, ps, idx, currentPoints,
                   processedUIDs, elapsed, pre>>

\* The UIDs of uidsMap the loop over the listing has not marked as found.
NotFoundMutNone(uidsMap, pts) == {}

NotFound(uidsMap, pts) == {u \in uidsMap : \A pt \in Range(pts) : pt.UID # u}

\* No record under the name: the identifier is split at ';' and looked up,
\* UID by UID, in the listing of all contact points.
ReadByUIDs(p) ==
    /\ ~crashed
    /\ pc[p] = "readAll"
    /\ \E res \in {<<"ok", l>> : l \in Perms(remote)}
                  \cup {<<"err", e>> : e \in ListErrors} :
         /\ Logged(p, Call("list", "", IF res[1] = "ok" THEN Ok ELSE FromErr(res[2])))
         /\ IF res[1] = "err"
            THEN /\ Return(p, FromErr(res[2]))
                 /\ UNCHANGED <<points, data>>
            ELSE LET uidsMap == SplitId(data[p].id)
                     scan == LegacyScan(res[2], 1, uidsMap, <<>>)
                     missing == NotFound(uidsMap, scan.points)
                 IN IF scan.err # NoErr
                    THEN /\ Return(p, FromErr(scan.err))
                         /\ UNCHANGED <<points, data>>
                    ELSE IF missing # {}
                    THEN /\ \E u \in missing :
                              Return(p, FromErr(Described("not found", {u}, {})))
                         /\ UNCHANGED <<points, data>>
                    ELSE IF scan.points = <<>>
                    THEN /\ Return(p, WarnMissing)
                         /\ data' = [data EXCEPT ![p].id = NoId]
                         /\ UNCHANGED points
                    ELSE Packed(p, scan.points)
    /\ UNCHANGED <<backendVars, orgID, ctxDone, pureVars, op, nops, mtId, ps, idx, currentPoints,
                   processedUIDs, elapsed, pre>>

\* --------------------------------------------------------- deleteContactPoint

\* common.CheckReadError: not found is a warning that removes the resource
\* from the state, any other error is returned.
CheckReadError(e) == IF IsNotFoundError(e) THEN WarnMissing ELSE FromErr(e)

DeleteFetch(p) ==
    /\ ~crashed
    /\ pc[p] = "delFetch"
    /\ \E res \in {<<"ok", Listed(ByName(NameOfId(data[p].id)))>>}
                  \cup {<<"err", e>> : e \in ListErrors} :
         /\ Logged(p, Call("list", "", IF res[1] = "ok" THEN Ok ELSE FromErr(res[2])))
         /\ IF res[1] = "err"
            THEN /\ Return(p, CheckReadError(res[2]))
                 /\ UNCHANGED <<currentPoints, idx>>
            ELSE IF res[2] = <<>>
            THEN /\ Return(p, Ok)
                 /\ UNCHANGED <<currentPoints, idx>>
            ELSE /\ currentPoints' = [currentPoints EXCEPT ![p] = res[2]]
                 /\ idx' = [idx EXCEPT ![p] = 1]
                 /\ pc' = [pc EXCEPT ![p] = "delAll"]
                 /\ UNCHANGED <<diags, lock, crashed>>
    /\ UNCHANGED <<backendVars, orgID, ctxDone, pureVars, op, nops, data, mtId, ps, processedUIDs,
                   elapsed, points, pre>>

DeleteAll(p) ==
    /\ ~crashed
    /\ pc[p] = "delAll"
    /\ LET cp == currentPoints[p][idx[p]] IN
       \E res \in {Ok} \cup {FromErr(e) : e \in CallErrors} :
         /\ Logged(p, Call("delete", cp.UID, res))
         /\ IF res = Ok
            THEN /\ remote' = {r \in remote : r.UID # cp.UID}
                 /\ idx' = [idx EXCEPT ![p] = @ + 1]
                 /\ IF idx[p] = Len(currentPoints[p])
                    THEN Return(p, Ok)
                    ELSE UNCHANGED <<pc, diags, lock, crashed>>
            ELSE /\ Return(p, res)
                 /\ UNCHANGED <<remote, idx>>
    /\ UNCHANGED <<nextUID, muteTimings, orgID, ctxDone, pureVars, op, nops, data, mtId, ps,
                   currentPoints, processedUIDs, elapsed, points, pre>>

\* --------------------------------------------------------------- mute timings

\* createMuteTiming: PostMuteTiming, then the identifier and the read.
MuteCreate(p) ==
    /\ ~crashed
    /\ pc[p] = "mtPost"
    /\ \E res \in {Ok} \cup {FromErr(e) : e \in CallErrors} :
         /\ Logged(p, Call("mtPost", "", res))
         /\ IF res = Ok
            THEN /\ muteTimings' = muteTimings \cup {MuteName}
                 /\ mtId' = [mtId EXCEPT ![p] = MuteName]
                 /\ pc' = [pc EXCEPT ![p] = "mtRead"]
                 /\ UNCHANGED <<diags, lock, crashed>>
            ELSE /\ Return(p, res)
                 /\ UNCHANGED <<muteTimings, mtId>>
    /\ UNCHANGED <<remote, nextUID, orgID, ctxDone, pureVars, op, nops, data, localVars, pre>>

\* updateMuteTiming: PutMuteTiming, then the read.
MuteUpdate(p) ==
    /\ ~crashed
    /\ pc[p] = "mtPut"
    /\ \E res \in {Ok} \cup {FromErr(e) : e \in CallErrors} :
         LET got == IF res = Ok /\ MuteName \notin muteTimings
                    THEN FromErr(APIError(404)) ELSE res IN
         /\ Logged(p, Call("mtPut", "", got))
         /\ IF got = Ok
            THEN /\ pc' = [pc EXCEPT ![p] = "mtRead"]
                 /\ UNCHANGED <<diags, lock, crashed>>
            ELSE Return(p, got)
    /\ UNCHANGED <<backendVars, orgID, ctxDone, pureVars, op, nops, data, mtId, localVars, pre>>

\* deleteMuteTiming: DeleteMuteTiming, its error through CheckReadError.
MuteDelete(p) ==
    /\ ~crashed
    /\ pc[p] = "mtDelete"
    /\ \E res \in {Ok} \cup {FromErr(e) : e \in ListErrors} :
         /\ Logged(p, Call("mtDelete", "", res))
         /\ IF res = Ok
            THEN /\ muteTimings' = muteTimings \ {MuteName}
                 /\ Return(p, Ok)
            ELSE /\ Return(p, CheckReadError(res.err))
                 /\ UNCHANGED muteTimings
    /\ UNCHANGED <<remote, nextUID, orgID, ctxDone, pureVars, op, nops, data, mtId, localVars, pre>>

\* readMuteTiming: GetMuteTiming, its error through CheckReadError.
MuteRead(p) ==
    /\ ~crashed
    /\ pc[p] = "mtRead"
    /\ \E res \in {Ok} \cup {FromErr(e) : e \in ListErrors} :
         LET got == IF res = Ok /\ MuteName \notin muteTimings
                    THEN FromErr(APIError(404)) ELSE res IN
         /\ Logged(p, Call("mtGet", "", got))
         /\ Return(p, IF got = Ok THEN Ok ELSE CheckReadError(got.err))
    /\ UNCHANGED <<backendVars, orgID, ctxDone, pureVars, op, nops, data, mtId, localVars, pre>>

\* ------------------------------------------------- what the SDK keeps of it

\* The state the SDK saves when a handler has returned: a resource whose
\* identifier is empty is not in the state, and neither is one a delete
\* removed or an import could not read.
Saved(p) ==
    CASE op[p] \in {"cpCreate", "cpRead"} /\ data[p].id = NoId -> NewData
      [] op[p] = "cpImport" /\ diags[p].kind # "ok" -> NewData
      [] op[p] = "cpDelete" /\ diags[p].kind \in {"ok", "missing"} -> NewData
      [] OTHER -> data[p]

\* What is remembered of a handler that has returned: of a reconciliation
\* that failed after some create or update call had succeeded, its desired
\* configuration and the number of those calls.
Left(p) ==
    LET applied == Cardinality({i \in 1..Len(calls[p]) :
                                  /\ calls[p][i].call \in {"create", "update"}
                                  /\ calls[p][i].ok})
    IN IF op[p] \in {"cpCreate", "cpUpdate"} /\ diags[p].kind = "error" /\ applied > 0
       THEN [op |-> op[p], fields |-> pre[p].fields, kind |-> diags[p].kind,
             applied |-> applied]
       ELSE NoPrev

Finish(p) ==
    /\ ~crashed
    /\ pc[p] = "done"
    /\ pc' = [pc EXCEPT ![p] = "idle"]
    /\ data' = [data EXCEPT ![p] = Saved(p)]
    /\ mtId' = [mtId EXCEPT ![p] =
                  IF op[p] \in {"mtDelete", "mtRead"} /\ diags[p].kind \in {"ok", "missing"}
                     /\ ~(op[p] = "mtRead" /\ diags[p].kind = "ok")
                  THEN "" ELSE @]
    /\ op' = [op EXCEPT ![p] = "none"]
    /\ ps' = [ps EXCEPT ![p] = <<>>]
    /\ idx' = [idx EXCEPT ![p] = 0]
    /\ currentPoints' = [currentPoints EXCEPT ![p] = <<>>]
    /\ processedUIDs' = [processedUIDs EXCEPT ![p] = {}]
    /\ elapsed' = [elapsed EXCEPT ![p] = 0]
    /\ points' = [points EXCEPT ![p] = <<>>]
    /\ diags' = [diags EXCEPT ![p] = NoDiag]
    /\ calls' = [calls EXCEPT ![p] = <<>>]
    /\ pre' = [pre EXCEPT ![p] = [NoPre EXCEPT !.prev = Left(p)]]
    /\ ctxDone' = [ctxDone EXCEPT ![p] = FALSE]
    /\ UNCHANGED <<backendVars, orgID, pureVars, lock, crashed, nops>>

\* The contact point as an earlier run left it in the state: not there, or
\* read from the records under its name.
InStateOf(rem, org) ==
    LET l == Listed({r \in rem : r.Name = ResName}) IN
    {NewData} \cup
    (IF l = <<>> THEN {}
     ELSE {[packContactPoints(l, NewData) EXCEPT
              !.id = MakeOrgResourceID(org, ResName), !.isNew = FALSE]})

\* The workers of P have a contact point resource each.
InitOf(P) ==
    /\ remote \in InitRemotes
    /\ nextUID = 4
    /\ muteTimings = {}
    /\ orgID \in {1, 2}
    /\ lock = 0
    /\ crashed = FALSE
    /\ op = [p \in Procs |-> "none"]
    /\ pc = [p \in Procs |-> "idle"]
    /\ nops = [p \in Procs |-> 0]
    /\ data \in [Procs -> InStateOf(remote, orgID)]
    /\ \A p \in Procs \ P : data[p] = NewData
    /\ mtId = [p \in Procs |-> ""]
    /\ ps = [p \in Procs |-> <<>>]
    /\ idx = [p \in Procs |-> 0]
    /\ currentPoints = [p \in Procs |-> <<>>]
    /\ processedUIDs = [p \in Procs |-> {}]
    /\ elapsed = [p \in Procs |-> 0]
    /\ points = [p \in Procs |-> <<>>]
    /\ diags = [p \in Procs |-> NoDiag]
    /\ calls = [p \in Procs |-> <<>>]
    /\ pre = [p \in Procs |-> NoPre]
    /\ ctxDone = [p \in Procs |-> FALSE]

\* ------------------------------------------------------- suppressMonthDiff

\* The keys of monthNums; the value of a key is its position.
monthNums ==
    << <<"j", "a", "n", "u", "a", "r", "y">>,
       <<"f", "e", "b", "r", "u", "a", "r", "y">>,
       <<"m", "a", "r", "c", "h">>,
       <<"a", "p", "r", "i", "l">>,
       <<"m", "a", "y">>,
       <<"j", "u", "n", "e">>,
       <<"j", "u", "l", "y">>,
       <<"a", "u", "g", "u", "s", "t">>,
       <<"s", "e", "p", "t", "e", "m", "b", "e", "r">>,
       <<"o", "c", "t", "o", "b", "e", "r">>,
       <<"n", "o", "v", "e", "m", "b", "e", "r">>,
       <<"d", "e", "c", "e", "m", "b", "e", "r">> >>

Months == 1..NMonths

Digit == <<"0", "1", "2", "3", "4", "5", "6", "7", "8", "9">>
\* fmt.Sprint(v) of a month number.
Sprint(v) ==
    IF v < 10 THEN <<Digit[v + 1]>> ELSE <<Digit[(v \div 10) + 1], Digit[(v % 10) + 1]>>

\* strings.ReplaceAll(s, old, new): the occurrences of old, from the left and
\* without overlap.
RECURSIVE ReplaceAllMutFirst(_, _, _)
RECURSIVE ReplaceAll(_, _, _)
ReplaceAllMutFirst(s, old, new) ==
    IF Len(s) < Len(old) THEN s
    ELSE IF SubSeq(s, 1, Len(old)) = old
    THEN new \o SubSeq(s, Len(old) + 1, Len(s))
    ELSE <<Head(s)>> \o ReplaceAllMutFirst(Tail(s), old, new)

ReplaceAll(s, old, new) ==
    IF Len(s) < Len(old) THEN s
    ELSE IF SubSeq(s, 1, Len(old)) = old
    THEN new \o ReplaceAll(SubSeq(s, Len(old) + 1, Len(s)), old, new)
    ELSE <<Head(s)>> \o ReplaceAll(Tail(s), old, new)

\* A month of a range expression, written as its name or as its number.
MonthAtoms == [name : BOOLEAN, m : Months]
\* The values of a months entry: one month, or a range first:last.
MonthExprs == {<<a>> : a \in MonthAtoms} \cup {<<a, b>> : a, b \in MonthAtoms}
AtomText(a) == IF a.name THEN monthNums[a.m] ELSE Sprint(a.m)
\* The string of an expression.
Text(e) ==
    IF Len(e) = 1 THEN AtomText(e[1]) ELSE AtomText(e[1]) \o <<":">> \o AtomText(e[2])

\* suppressMonthDiff is not running.
NoMonth ==
    [stage |-> "none", old |-> <<>>, new |-> <<>>, todo |-> {},
     oldNormalized |-> <<>>, newNormalized |-> <<>>, result |-> FALSE]

\* ------------------------------------------------------------ secure fields

\* packSecureFields: the secure fields the prior state has a value for are
\* written over tfSettings; state is the empty map when there is none.
packSecureFieldsMutAllKeys(tfSettings, state, secureFields) ==
    [k \in DOMAIN tfSettings \cup DOMAIN state |->
        IF k \in DOMAIN state THEN state[k] ELSE tfSettings[k]]

packSecureFields(tfSettings, state, secureFields) ==
    LET written == {tfKey \in secureFields : tfKey \in DOMAIN state} IN
    [k \in DOMAIN tfSettings \cup written |->
        IF k \in written THEN state[k] ELSE tfSettings[k]]

\* getNotifierConfigFromStateWithUID: what the loop over the instances of
\* the kind can return, the list being in any order; nil, the empty map,
\* when no instance has the UID.
getNotifierConfigFromStateWithUIDMutAnyUID(pts, uid) ==
    IF pts = {} THEN {EmptyMap} ELSE pts

getNotifierConfigFromStateWithUID(pts, uid) ==
    IF \A config \in pts : config.uid # uid THEN {EmptyMap}
    ELSE {config \in pts : config.uid = uid}

\* notifier.pack of a kind with secure fields: the common fields, the
\* settings no typed field claims, and the secure fields from the prior
\* state of the instance with the record's UID, not from the record.
NotifierPackSecure(n, p, pts) ==
    LET residual == [p EXCEPT !.Settings = MapDelete(p.Settings, notifiers[n].secureFields)]
        notifier == [k \in {"uid", "disable_resolve_message", "settings"} |->
                       CASE k = "uid" -> packCommonNotifierFields(p).uid
                         [] k = "disable_resolve_message" ->
                              packCommonNotifierFields(p).disable_resolve_message
                         [] k = "settings" -> packSettings(residual)]
    IN {packSecureFields(notifier, state, notifiers[n].secureFields) :
          state \in getNotifierConfigFromStateWithUID(pts, p.UID)}

\* No such packing is in progress.
NoSecure ==
    [stage |-> "none", n |-> 1, prior |-> {}, resp |-> <<>>, packed |-> <<>>]

\* ------------------------------------------------------------- CreateUser

\* The logins a configuration of the model may declare.
Logins == {"a", "b", "c"}

\* No user resource is being created; the backend holds no user.  id is
\* d.Id() (0 when empty), resp the ID of the response of AdminCreateUser (0
\* before it), tracked the IDs the state holds.
NoUser ==
    [pc |-> "idle", login |-> "", is_admin |-> FALSE, id |-> 0, resp |-> 0,
     diag |-> NoDiag, users |-> {}, next |-> 1, tracked |-> {}]

\* No codec round trip is in progress.
NoPoint ==
    [UID |-> "", Name |-> "", Type |-> "", DisableResolveMessage |-> FALSE,
     Settings |-> EmptyMap]
NoRaw == [uid |-> "", disable_resolve_message |-> FALSE, settings |-> EmptyMap]
NoCodec == [stage |-> "none", n |-> 1, x |-> NoRaw, gf |-> NoPoint, packed |-> NoRaw]

Init ==
    /\ InitOf({1})
    /\ codec = NoCodec /\ month = NoMonth /\ secure = NoSecure /\ user = NoUser

\* The contact point is deleted in Grafana itself, while no handler runs.
DeletedElsewhere ==
    /\ ~crashed
    /\ \A p \in Procs : pc[p] = "idle"
    /\ ByName(ResName) # {}
    /\ remote' = remote \ ByName(ResName)
    /\ UNCHANGED <<nextUID, muteTimings, orgID, ctxDone, pureVars, lock, crashed, op, pc, nops, data,
                   mtId, localVars, diags, calls, pre>>

\* ------------------------------------------------------------ specifications

\* The steps of the handlers of a contact point.
Run(p) ==
    \/ Lock(p)
    \/ Unpack(p)
    \/ FetchCurrent(p)
    \/ PutContactpoint(p)
    \/ PostContactpoints(p)
    \/ RetryWait(p)
    \/ CtxDone(p)
    \/ DeleteStale(p)
    \/ ReadByName(p)
    \/ ReadByUIDs(p)
    \/ DeleteFetch(p)
    \/ DeleteAll(p)
    \/ Finish(p)

Step(p) ==
    \/ BeginCreate(p)
    \/ BeginUpdate(p)
    \/ BeginDelete(p)
    \/ BeginRead(p)
    \/ BeginImport(p)
    \/ Run(p)

\* One worker runs the handlers of one contact point resource, one after
\* the other.
Next == Step(1) \/ DeletedElsewhere

Spec == Init /\ [][Next]_vars

\* The worker goes on: a create call returns, a backoff wait ends.
FairSpec == Spec /\ WF_vars(PostContactpoints(1)) /\ WF_vars(RetryWait(1))

\* The workers run the handlers of their contact point and mute timing
\* resources concurrently, outside the default organization, on small
\* configurations: one webhook instance, kept or added.
InitConc ==
    /\ InitOf(Procs)
    /\ user = NoUser
    /\ codec = NoCodec
    /\ month = NoMonth
    /\ secure = NoSecure
    /\ orgID = 2
    /\ remote = {Rec("u1", "N", "webhook"), Rec("u2", "N", UnknownType)}

ConcSettings == [k \in {"k"} |-> <<"a">>]
ConcDesiredNew == {[EmptyFields EXCEPT !["webhook"] = {Inst("", ConcSettings)}]}
ConcDesiredUpd(d) ==
    {[EmptyFields EXCEPT !["webhook"] = {Inst(x.uid, ConcSettings)}] :
        x \in d.fields["webhook"]}

StepConc(p) ==
    \/ BeginCreateOf(p, ConcDesiredNew)
    \/ BeginUpdateOf(p, ConcDesiredUpd(data[p]))
    \/ BeginDelete(p)
    \/ BeginRead(p)
    \/ BeginImportOf(p, {MakeOrgResourceID(orgID, ResName)})
    \/ BeginMuteTiming(p)
    \/ Run(p)
    \/ MuteCreate(p)
    \/ MuteUpdate(p)
    \/ MuteDelete(p)
    \/ MuteRead(p)

NextConc == \E p \in Procs : StepConc(p)

SpecConc == InitConc /\ [][NextConc]_vars

\* ------------------------------------------------- the codec specification

\* The strings of at most MaxValLen characters.
Strings == UNION {[1..l -> Chars] : l \in 0..MaxValLen}
\* Keys of the generic settings map; none of them is a secure field.
CodecKeys == {"k1", "k2"}
\* The declared notifier instances: the common fields and a settings map.
CodecInputs ==
    { [uid |-> u, disable_resolve_message |-> b, settings |-> s] :
        u \in {"", "u1"}, b \in BOOLEAN,
        s \in UNION {[ks -> Strings] : ks \in SUBSET CodecKeys} }

\* No handler runs; one declared instance of one kind is given.
InitCodec ==
    /\ InitOf({})
    /\ user = NoUser
    /\ orgID = 1
    /\ remote = {}
    /\ month = NoMonth
    /\ secure = NoSecure
    /\ \E n \in Kinds, x \in CodecInputs :
           codec = [stage |-> "declared", n |-> n, x |-> x, gf |-> NoPoint,
                    packed |-> NoRaw]

engineVars == <<backendVars, orgID, lock, crashed, op, pc, nops, data, mtId,
                localVars, diags, calls, pre, ctxDone>>

\* unpackContactPoints, one instance: gfState of the statePair.
CodecUnpack ==
    /\ codec.stage = "declared"
    /\ codec' = [codec EXCEPT !.stage = "unpacked",
                              !.gf = unpackPointConfig(codec.n, codec.x, ResName)]
    /\ UNCHANGED <<engineVars, month, secure, user>>

\* The backend stores the object and returns it on a read: as it was sent,
\* or, on the versions with the defect of grafana/grafana issue 55139, with
\* the empty string for settings that were not sent.
CodecEcho ==
    /\ codec.stage = "unpacked"
    /\ \E E \in SUBSET (CodecKeys \ DOMAIN codec.gf.Settings) :
         codec' = [codec EXCEPT
                     !.stage = "echoed",
                     !.gf.Settings = [k \in DOMAIN codec.gf.Settings \cup E |->
                                        IF k \in E THEN EmptyStr
                                        ELSE codec.gf.Settings[k]]]
    /\ UNCHANGED <<engineVars, month, secure, user>>

\* packContactPoints, one record: the entry it appends for the record's
\* kind; the record is the unpacked object, or what the backend returned.
CodecPack ==
    /\ codec.stage \in {"unpacked", "echoed"}
    /\ TypeMatches(codec.gf, codec.n)
    /\ codec' = [codec EXCEPT !.stage = IF codec.stage = "unpacked" THEN "packed"
                                        ELSE "packedEcho",
                              !.packed = NotifierPack(codec.n, codec.gf)]
    /\ UNCHANGED <<engineVars, month, secure, user>>

NextCodec == CodecUnpack \/ CodecEcho \/ CodecPack

SpecCodec == InitCodec /\ [][NextCodec]_vars

\* ------------------------------------- the suppressMonthDiff specification

\* No handler runs; suppressMonthDiff is called with two values of a months
\* entry and is at the head of its loop over monthNums.
InitMonth ==
    /\ InitOf({})
    /\ user = NoUser
    /\ orgID = 1
    /\ remote = {}
    /\ codec = NoCodec
    /\ secure = NoSecure
    /\ \E o, n \in MonthExprs :
           month = [stage |-> "loop", old |-> o, new |-> n, todo |-> Months,
                    oldNormalized |-> Text(o), newNormalized |-> Text(n),
                    result |-> FALSE]

\* One round of the loop: range over a map yields the keys in any order.
MonthReplace ==
    /\ month.stage = "loop"
    /\ \E v \in month.todo :
         month' = [month EXCEPT
                     !.todo = @ \ {v},
                     !.oldNormalized = ReplaceAll(@, monthNums[v], Sprint(v)),
                     !.newNormalized = ReplaceAll(@, monthNums[v], Sprint(v))]
    /\ UNCHANGED <<engineVars, codec, secure, user>>

\* return oldNormalized == newNormalized
MonthReturn ==
    /\ month.stage = "loop"
    /\ month.todo = {}
    /\ month' = [month EXCEPT !.stage = "done",
                              !.result = (month.oldNormalized = month.newNormalized)]
    /\ UNCHANGED <<engineVars, codec, secure, user>>

NextMonth == MonthReplace \/ MonthReturn

SpecMonth == InitMonth /\ [][NextMonth]_vars

\* --------------------------------------------- the secure field specification

\* The secure field the declared instances and the backend records carry.
SecureKey == "password"
SecureValues == {<<>>, <<"a">>, <<"b">>}
\* A declared instance of the prior state, with or without the secure field.
PriorInstances ==
    {Inst(u, EmptyMap) : u \in {"u1", "u2"}}
    \cup {[k \in {"uid", "disable_resolve_message", "settings", SecureKey} |->
             CASE k = "uid" -> u
               [] k = "disable_resolve_message" -> FALSE
               [] k = "settings" -> EmptyMap
               [] k = SecureKey -> v] : u \in {"u1", "u2"}, v \in SecureValues}
\* The prior state of a kind: at most MaxInst instances, no UID twice.
PriorStates ==
    {pts \in SUBSET PriorInstances :
        /\ Cardinality(pts) <= MaxInst
        /\ \A a, b \in pts : a.uid = b.uid => a = b}
\* What a backend record holds under the secure key, if anything.
BackendSecrets ==
    {EmptyMap} \cup {[k \in {SecureKey} |-> StrVal(v)] : v \in {<<"a">>, <<DQ>>}}
\* Two records of a kind that differ at most under a secure key of the kind.
ResponsePairs(n) ==
    {[i \in 1..2 |->
        [UID |-> u, Name |-> ResName, Type |-> notifiers[n].typeStr,
         DisableResolveMessage |-> FALSE,
         Settings |-> [k \in DOMAIN g \cup DOMAIN w[i] |->
                         IF k \in DOMAIN g THEN g[k] ELSE w[i][k]]]] :
       u \in {"u1", "u3"},
       g \in {EmptyMap, [k \in {"k1"} |-> StrVal(<<"a">>)]},
       w \in {w \in [1..2 -> BackendSecrets] :
                 SecureKey \in notifiers[n].secureFields \/ w[1] = w[2]}}

\* No handler runs; a prior state of a kind and two backend records are given.
InitSecure ==
    /\ InitOf({})
    /\ user = NoUser
    /\ orgID = 1
    /\ remote = {}
    /\ codec = NoCodec
    /\ month = NoMonth
    /\ \E n \in Kinds, pts \in PriorStates :
         \E r \in ResponsePairs(n) :
           secure = [stage |-> "given", n |-> n, prior |-> pts, resp |-> r,
                     packed |-> <<>>]

\* packContactPoints, one record: the entry n.pack returns for the next of
\* the two records.
SecurePack ==
    /\ secure.stage = "given"
    /\ \E e \in NotifierPackSecure(secure.n, secure.resp[Len(secure.packed) + 1],
                                   secure.prior) :
         secure' = [secure EXCEPT
                      !.packed = Append(@, e),
                      !.stage = IF Len(secure.packed) = 1 THEN "packed" ELSE "given"]
    /\ UNCHANGED <<engineVars, codec, month, user>>

NextSecure == SecurePack

SpecSecure == InitSecure /\ [][NextSecure]_vars

\* -------------------------------------------------- the user specification

\* Users the backend may hold before the provider runs.
User(id, login, admin) == [ID |-> id, Login |-> login, IsGrafanaAdmin |-> admin]

InitUser ==
    /\ InitOf({})
    /\ orgID = 1
    /\ remote = {}
    /\ codec = NoCodec
    /\ month = NoMonth
    /\ secure = NoSecure
    /\ \E U \in {{}, {User(1, "a", FALSE)}} :
         user = [NoUser EXCEPT !.users = U, !.next = Cardinality(U) + 1]

\* Terraform plans the creation of a user resource and calls CreateUser.
UserBegin ==
    /\ user.pc = "idle"
    /\ \E l \in Logins, adm \in BOOLEAN :
         user' = [user EXCEPT !.pc = "create", !.login = l, !.is_admin = adm,
                              !.id = 0, !.resp = 0, !.diag = NoDiag]
    /\ UNCHANGED <<engineVars, codec, month, secure>>

\* d.HasChange("is_admin") in a creation: the old value is the zero value.
HasChange(u) == u.is_admin # FALSE

\* AdminCreateUser: the backend stores the user under an ID of its own, or
\* fails and stores nothing; a login in use is refused.  When is_admin has
\* no change, d.SetId follows.
AdminCreateUser ==
    /\ user.pc = "create"
    /\ LET inUse == \E u \in user.users : u.Login = user.login IN
       \E res \in {r \in {Ok} : user.next <= MaxUsers /\ ~inUse}
                  \cup {FromErr(APIError(500))}
                  \cup {r \in {FromErr(APIError(412))} : inUse} :
         IF res = Ok
         THEN user' = [user EXCEPT
                         !.users = @ \cup {User(user.next, user.login, FALSE)},
                         !.resp = user.next,
                         !.next = @ + 1,
                         !.id = IF HasChange(user) THEN 0 ELSE user.next,
                         !.pc = IF HasChange(user) THEN "perm" ELSE "read"]
         ELSE user' = [user EXCEPT !.diag = res, !.pc = "done"]
    /\ UNCHANGED <<engineVars, codec, month, secure>>

\* AdminUpdateUserPermissions of the created user; on success d.SetId
\* follows, on failure the handler returns the error.
AdminUpdateUserPermissions ==
    /\ user.pc = "perm"
    /\ \E res \in {Ok, FromErr(APIError(500))} :
         IF res = Ok
         THEN user' = [user EXCEPT
                         !.users = {IF u.ID = user.resp
                                    THEN [u EXCEPT !.IsGrafanaAdmin = user.is_admin]
                                    ELSE u : u \in user.users},
                         !.id = user.resp,
                         !.pc = "read"]
         ELSE user' = [user EXCEPT !.diag = res, !.pc = "done"]
    /\ UNCHANGED <<engineVars, codec, month, secure>>

\* ReadUser at the end of CreateUser: GetUserByID of the recorded ID.
ReadUser ==
    /\ user.pc = "read"
    /\ \E res \in {Ok, FromErr(APIError(500))} :
         user' = [user EXCEPT !.diag = res, !.pc = "done"]
    /\ UNCHANGED <<engineVars, codec, month, secure>>

\* CreateUser has returned: the SDK keeps the resource in the state when its
\* identifier is set.
UserFinish ==
    /\ user.pc = "done"
    /\ user' = [user EXCEPT
                  !.tracked = IF user.id # 0 THEN @ \cup {user.id} ELSE @,
                  !.pc = "idle", !.login = "", !.is_admin = FALSE,
                  !.id = 0, !.resp = 0, !.diag = NoDiag]
    /\ UNCHANGED <<engineVars, codec, month, secure>>

NextUser ==
    \/ UserBegin
    \/ AdminCreateUser
    \/ AdminUpdateUserPermissions
    \/ ReadUser
    \/ UserFinish

SpecUser == InitUser /\ [][NextUser]_vars

\* -------------------------------------------------------------------- claims

CallsOf(p, c) == SelectSeq(calls[p], LAMBDA e : e.call = c)
OkCallsOf(p, c) == SelectSeq(calls[p], LAMBDA e : e.call = c /\ e.ok)
AllOk(p) == \A i \in 1..Len(calls[p]) : calls[p][i].ok
Done(p, o) == pc[p] = "done" /\ op[p] = o
\* The UIDs the desired instances carried when the handler began.
DesiredUIDs(p) == [i \in 1..Len(ps[p]) |-> ps[p][i].gfState.UID]
Reconciles(p) == op[p] \in {"cpCreate", "cpUpdate"}

\* C1: a first-time creation of N instances without UID, no record under the
\* name before it and every call succeeding, ends without error after
\* exactly N create calls, no update call and no delete call, and the state
\* tree of its final read holds exactly N instances, each with a UID.
C1_CreateIssuesNCreates ==
    \A p \in Procs :
        (/\ Done(p, "cpCreate")
         /\ \A r \in pre[p].remote : r.Name # ResName
         /\ AllOk(p))
        => /\ diags[p] = Ok
           /\ \A i \in 1..Len(ps[p]) : DesiredUIDs(p)[i] = ""
           /\ Len(CallsOf(p, "create")) = Len(ps[p])
           /\ CallsOf(p, "update") = <<>>
           /\ CallsOf(p, "delete") = <<>>
           /\ NumInstances(data[p]) = Len(ps[p])
           /\ \A x \in Instances(data[p]) : x.uid # ""

C1_Witness ==
    \E p \in Procs :
        /\ Done(p, "cpCreate") /\ AllOk(p) /\ diags[p] = Ok
        /\ \A r \in pre[p].remote : r.Name # ResName
        /\ Len(ps[p]) = 2
        /\ NumInstances(data[p]) = 2

\* C2: an update in which every call succeeds issues one update call for
\* each desired instance that carried a UID, against that UID and in order,
\* one create call for each instance that carried none, and one delete call
\* for each fetched record whose UID was neither created nor updated; no
\* deleted UID is among the records of the read that follows.
C2_UpdateDiff ==
    \A p \in Procs :
        (Done(p, "cpUpdate") /\ AllOk(p))
        => LET upd == CallsOf(p, "update")
               del == CallsOf(p, "delete")
               want == SelectSeq(DesiredUIDs(p), LAMBDA u : u # "")
               stale == {pt.UID : pt \in Range(currentPoints[p])} \ processedUIDs[p]
           IN /\ diags[p] = Ok
              /\ [i \in 1..Len(upd) |-> upd[i].uid] = want
              /\ Len(CallsOf(p, "create")) = Len(ps[p]) - Len(want)
              /\ {del[i].uid : i \in 1..Len(del)} = stale
              /\ Len(del) = Cardinality(stale)
              /\ processedUIDs[p] = {ps[p][i].tfState.uid : i \in 1..Len(ps[p])}
              /\ \A pt \in Range(points[p]) : pt.UID \notin stale
              /\ \A x \in Instances(data[p]) : x.uid \notin stale

\* One instance kept, one added, one fetched record dropped.
C2_Witness ==
    \E p \in Procs :
        /\ Done(p, "cpUpdate") /\ AllOk(p)
        /\ Len(CallsOf(p, "update")) = 1
        /\ Len(CallsOf(p, "create")) = 1
        /\ Len(CallsOf(p, "delete")) = 1
        /\ \E i \in 1..Len(ps[p]) :
             /\ DesiredUIDs(p)[i] # ""
             /\ \E r \in pre[p].remote :
                  r.UID = DesiredUIDs(p)[i] /\ r.Settings # ps[p][i].gfState.Settings

\* The failed calls of the handler so far are create calls that failed with
\* status 500, each followed by another call.
OnlyRetriedCreates(p) ==
    \A i \in 1..Len(calls[p]) :
        ~calls[p][i].ok =>
            /\ calls[p][i].call = "create"
            /\ calls[p][i].err = APIError(500)
            /\ i < Len(calls[p])

\* C3: outside the default organization, a reconciliation whose only
\* failures are create calls answered 500 and tried again with success
\* before the budget is spent ends without error; the backend holds one new
\* record for each instance created, and each instance has one UID, the one
\* in processedUIDs.
C3_RetryThenSuccess ==
    \A p \in Procs :
        (/\ pc[p] = "done" /\ Reconciles(p)
         /\ orgID > 1
         /\ OnlyRetriedCreates(p))
        => /\ diags[p] = Ok
           /\ nextUID - pre[p].next = Len(OkCallsOf(p, "create"))
           /\ Len(OkCallsOf(p, "create")) =
                Cardinality({i \in 1..Len(ps[p]) : DesiredUIDs(p)[i] = ""})
           /\ \A i \in 1..Len(ps[p]) :
                /\ ps[p][i].tfState.uid # ""
                /\ ps[p][i].tfState.uid \in processedUIDs[p]
                /\ DesiredUIDs(p)[i] = "" =>
                     /\ \E c \in Range(OkCallsOf(p, "create")) : c.uid = ps[p][i].tfState.uid
                     /\ Cardinality({r \in remote : r.UID = ps[p][i].tfState.uid}) = 1
           /\ Cardinality(processedUIDs[p]) = Len(ps[p])

\* A create that failed twice and then succeeded.
C3_Witness ==
    \E p \in Procs :
        /\ pc[p] = "done" /\ Reconciles(p) /\ orgID > 1 /\ OnlyRetriedCreates(p)
        /\ diags[p] = Ok
        /\ \E i \in 1..Len(calls[p]) - 2 :
             /\ ~calls[p][i].ok /\ ~calls[p][i + 1].ok
             /\ calls[p][i + 2].call = "create" /\ calls[p][i + 2].ok

\* The worker is in the retry loop of a create: waiting, or about to try again.
InRetry(p) == pc[p] = "retrywait" \/ (pc[p] = "apply" /\ elapsed[p] > 0)

\* The handler has returned after RetryTicks create calls in a row failed
\* with status 500.
Exhausted(p) ==
    /\ pc[p] = "done" /\ Reconciles(p) /\ orgID > 1
    /\ Len(calls[p]) >= RetryTicks
    /\ \A i \in (Len(calls[p]) - RetryTicks + 1)..Len(calls[p]) :
         calls[p][i].call = "create" /\ calls[p][i].err = APIError(500)

C4_Safe ==
    \A p \in Procs :
        /\ pc[p] = "apply" => elapsed[p] < RetryTicks
        /\ Exhausted(p) =>
             /\ diags[p] = FromErr(APIError(500))
             /\ ps[p][idx[p]].tfState.uid = ""
             /\ \A i \in idx[p]..Len(ps[p]) :
                  /\ ps[p][i].tfState.uid = DesiredUIDs(p)[i]
                  /\ ps[p][i].tfState.uid \notin processedUIDs[p]
             /\ CallsOf(p, "delete") = <<>>
             /\ lock # p

\* C4: the retry loop of a create is left: no attempt is made once the
\* budget is spent, and when every attempt has failed with 500 the handler
\* returns that error, records no UID for the instance, applies no later
\* instance and issues no delete.
C4_RetryLoopTerminates ==
    /\ []C4_Safe
    /\ \A p \in Procs : InRetry(p) ~> ~InRetry(p)

\* The budget was spent on the second of two instances.
C4_Witness ==
    \E p \in Procs : Exhausted(p) /\ idx[p] = 2 /\ Len(ps[p]) = 2

\* C5: a failed create call is retried exactly when the organization is not
\* the default one and the failure is status 500; after any other failure
\* the handler returns that error at once.
C5_RetryOnlyOn500 ==
    \A p \in Procs :
        Reconciles(p) =>
            \A i \in 1..Len(calls[p]) :
                (calls[p][i].call = "create" /\ ~calls[p][i].ok) =>
                    IF orgID > 1 /\ calls[p][i].err = APIError(500)
                    THEN \/ i < Len(calls[p])
                         \/ pc[p] \in {"retrywait", "apply"}
                         \/ pc[p] = "done" /\ diags[p] = FromErr(APIError(500))
                    ELSE /\ i = Len(calls[p])
                         /\ pc[p] = "done"
                         /\ diags[p] = FromErr(calls[p][i].err)

\* C7: a top-level read by (organization, name) that finds no record under
\* the name ends with the "resource missing" warning.
C7_ReadOfMissingWarns ==
    \A p \in Procs :
        (/\ Done(p, "cpRead")
         /\ pre[p].id.fmt = "org"
         /\ \A r \in pre[p].remote : r.Name # pre[p].id.name
         /\ AllOk(p))
        => diags[p] = WarnMissing

\* C8: packing the backend object obtained by unpacking a declared instance
\* gives the instance back: the same uid, the same disable_resolve_message,
\* and every settings value that is not the empty string unchanged; settings
\* with the empty string as value are absent.
C8_RoundTrip ==
    codec.stage = "packed" =>
        /\ codec.packed.uid = codec.x.uid
        /\ codec.packed.disable_resolve_message = codec.x.disable_resolve_message
        /\ codec.packed.settings =
               MapDelete(codec.x.settings,
                         {k \in DOMAIN codec.x.settings : codec.x.settings[k] = <<>>})

\* Positions of the packed lists that hold the UID u.
PackedAt(pts, u) ==
    {<<n, j>> \in Kinds \X (1..Len(pts)) :
        j <= Len(pointsPerNotifier(pts)[n]) /\ pointsPerNotifier(pts)[n][j].uid = u}

\* C9: a read that lists records under the name succeeds also when one has a
\* type tag of no registered notifier; that record is in no kind's packed
\* list, and each record of a registered type is in exactly one place, in
\* the list of the kind of its tag, which the state tree then holds.
C9_UnknownTypesSkipped ==
    \A p \in Procs :
        (/\ pc[p] = "done" /\ op[p] \in {"cpRead", "cpImport"}
         /\ pre[p].id.fmt = "org"
         /\ \E r \in pre[p].remote : r.Name = pre[p].id.name
         /\ AllOk(p))
        => /\ diags[p] = Ok
           /\ Range(points[p]) = {r \in pre[p].remote : r.Name = pre[p].id.name}
           /\ \A pt \in Range(points[p]) :
                IF pt.Type \in TypeTags
                THEN /\ Cardinality(PackedAt(points[p], pt.UID)) = 1
                     /\ \A t \in PackedAt(points[p], pt.UID) :
                          /\ notifiers[t[1]].typeStr = pt.Type
                          /\ \E x \in data[p].fields[notifiers[t[1]].field] : x.uid = pt.UID
                ELSE /\ PackedAt(points[p], pt.UID) = {}
                     /\ \A x \in Instances(data[p]) : x.uid # pt.UID

\* A read of two records, one of them of an unknown type.
C9_Witness ==
    \E p \in Procs :
        /\ pc[p] = "done" /\ op[p] \in {"cpRead", "cpImport"} /\ diags[p] = Ok
        /\ pre[p].id.fmt = "org"
        /\ \E a, b \in Range(points[p]) : a.Type = UnknownType /\ b.Type \in TypeTags

\* C10: an import by a UID list whose UIDs all resolve to records of one
\* name succeeds, packs exactly those records and sets the identifier to
\* the organization and that name.
C10_LegacyImport ==
    \A p \in Procs :
        (/\ Done(p, "cpImport")
         /\ pre[p].id.fmt = "uids"
         /\ \A u \in pre[p].id.uids : \E r \in pre[p].remote : r.UID = u
         /\ \A a, b \in pre[p].remote :
              (a.UID \in pre[p].id.uids /\ b.UID \in pre[p].id.uids) => a.Name = b.Name
         /\ AllOk(p))
        => /\ diags[p] = Ok
           /\ Range(points[p]) = {r \in pre[p].remote : r.UID \in pre[p].id.uids}
           /\ Len(points[p]) = Cardinality(pre[p].id.uids)
           /\ data[p].id = MakeOrgResourceID(orgID, points[p][1].Name)
           /\ data[p].name = points[p][1].Name
           /\ \A pt \in Range(points[p]) :
                pt.Type \in TypeTags =>
                    \E n \in Kinds :
                        /\ notifiers[n].typeStr = pt.Type
                        /\ NotifierPack(n, pt) \in data[p].fields[notifiers[n].field]

\* Two UIDs of one name, listed in either order.
C10_Witness ==
    \E p \in Procs :
        /\ Done(p, "cpImport") /\ diags[p] = Ok
        /\ pre[p].id = LegacyId({"u1", "u2"})
        /\ data[p].id = MakeOrgResourceID(orgID, "N")

\* The records of the backend the UID list of an import resolves to.
Resolved(p) == {r \in pre[p].remote : r.UID \in pre[p].id.uids}

\* C11: an import by a UID list that resolves to two records of different
\* names, in whatever order the backend lists its records, fails with an
\* error that names two of the resolved UIDs and their two different names;
\* the identifier and the state tree stay as they were.
C11_LegacyNameMismatch ==
    \A p \in Procs :
        (/\ Done(p, "cpImport")
         /\ pre[p].id.fmt = "uids"
         /\ \E a, b \in Resolved(p) : a.Name # b.Name
         /\ AllOk(p))
        => /\ diags[p].kind = "error"
           /\ diags[p].err.what = "different name"
           /\ \E a, b \in Resolved(p) :
                /\ a.Name # b.Name
                /\ diags[p].err.uids = {a.UID, b.UID}
                /\ diags[p].err.names = {a.Name, b.Name}
           /\ data[p].id = pre[p].id
           /\ data[p].fields = EmptyFields
           /\ points[p] = <<>>

\* The record of the other name is listed before, and after, the other one.
C11_Witness ==
    \E p \in Procs :
        /\ Done(p, "cpImport") /\ AllOk(p)
        /\ pre[p].id = LegacyId({"u1", "u3"})
        /\ diags[p].kind = "error" /\ diags[p].err.what = "different name"
        /\ Cardinality(Resolved(p)) = 2

\* C12: an import by a UID list of which a UID is no record's, the other
\* UIDs resolving to records of one name, fails with an error that names a
\* UID of the list that is missing; no record is packed, and the identifier
\* and the state tree stay as they were.
C12_LegacyMissingUID ==
    \A p \in Procs :
        (/\ Done(p, "cpImport")
         /\ pre[p].id.fmt = "uids"
         /\ \E u \in pre[p].id.uids : \A r \in pre[p].remote : r.UID # u
         /\ \A a, b \in Resolved(p) : a.Name = b.Name
         /\ AllOk(p))
        => /\ diags[p].kind = "error"
           /\ diags[p].err.what = "not found"
           /\ \E u \in pre[p].id.uids :
                /\ \A r \in pre[p].remote : r.UID # u
                /\ diags[p].err.uids = {u}
           /\ data[p].id = pre[p].id
           /\ data[p].fields = EmptyFields
           /\ points[p] = <<>>

\* Two UIDs of the list resolve, the third does not.
C12_Witness ==
    \E p \in Procs :
        /\ Done(p, "cpImport") /\ AllOk(p)
        /\ pre[p].id = LegacyId({"u1", "u2", "u3"})
        /\ Cardinality(Resolved(p)) = 2
        /\ diags[p].kind = "error" /\ diags[p].err.uids = {"u3"}

\* C13: the settings map packed from a backend record holds no key whose
\* value in the record is the empty string, whether the record is the object
\* that was sent or one the backend returned with empty strings for settings
\* that were not sent.
C13_NoEmptySettingsPacked ==
    codec.stage \in {"packed", "packedEcho"} =>
        \A k \in DOMAIN codec.packed.settings : codec.gf.Settings[k] # EmptyStr

\* The months an expression denotes.
Denote(e) == [i \in 1..Len(e) |-> e[i].m]

\* C14: suppressMonthDiff returns true exactly when its two values denote
\* the same months, a month being written as its name or as its number,
\* whatever the order in which the loop has substituted the month names.
C14_SuppressMonthDiff ==
    month.stage = "done" =>
        (month.result <=> Denote(month.old) = Denote(month.new))

\* january:march against 1:3 is suppressed.
C14_Witness ==
    /\ month.stage = "done"
    /\ month.old = <<[name |-> TRUE, m |-> 1], [name |-> TRUE, m |-> 3]>>
    /\ month.new = <<[name |-> FALSE, m |-> 1], [name |-> FALSE, m |-> 3]>>
    /\ month.result

\* january:march against 1:4 is not.
C14_WitnessDiffers ==
    /\ month.stage = "done"
    /\ month.old = <<[name |-> TRUE, m |-> 1], [name |-> TRUE, m |-> 3]>>
    /\ month.new = <<[name |-> FALSE, m |-> 1], [name |-> FALSE, m |-> 4]>>
    /\ ~month.result

\* The i-th call of the handler is a create, update or delete call that
\* failed and was not tried again.
FatalAt(p, i) ==
    /\ calls[p][i].call \in {"create", "update", "delete"}
    /\ ~calls[p][i].ok
    /\ ~(/\ calls[p][i].call = "create" /\ orgID > 1
         /\ calls[p][i].err = APIError(500)
         /\ i < Len(calls[p]) /\ calls[p][i + 1].call = "create")

\* What the calls that succeeded before the i-th did is in the backend: the
\* records created and updated are there, the records deleted are not.
EarlierChangesStay(p, i) ==
    \A j \in 1..(i - 1) :
        calls[p][j].ok =>
            /\ calls[p][j].call \in {"create", "update"} =>
                  \E r \in remote : r.UID = calls[p][j].uid
            /\ calls[p][j].call = "delete" =>
                  \A r \in remote : r.UID # calls[p][j].uid

\* C15: a reconciliation one of whose create, update or delete calls failed
\* for good has issued no call after it and has returned an error to its
\* caller; what its earlier calls changed in the backend is still there.
C15_FatalAbort ==
    \A p \in Procs :
        (pc[p] = "done" /\ Reconciles(p)) =>
            \A i \in 1..Len(calls[p]) :
                FatalAt(p, i) =>
                    /\ i = Len(calls[p])
                    /\ diags[p].kind = "error"
                    /\ EarlierChangesStay(p, i)

\* The same without the return of an error: after a call that failed for
\* good no call follows, and the earlier changes stay.
C15_NoCallAfterFatal ==
    \A p \in Procs :
        (pc[p] = "done" /\ Reconciles(p)) =>
            \A i \in 1..Len(calls[p]) :
                FatalAt(p, i) =>
                    /\ i = Len(calls[p])
                    /\ diags[p].kind \in {"error", "panic"}
                    /\ EarlierChangesStay(p, i)

\* The create and update calls among the first n calls that succeeded.
AppliedBefore(p, n) ==
    {j \in 1..n : calls[p][j].call \in {"create", "update"} /\ calls[p][j].ok}

\* C16: at every point of a reconciliation, each delete call it has issued
\* came after one successful create or update call for every desired
\* instance, no create or update call came after it, and its UID is the UID
\* of a record of the fetched current set that this reconciliation neither
\* created nor updated.
C16_DeletesLastAndStale ==
    \A p \in Procs :
        Reconciles(p) =>
            \A i \in 1..Len(calls[p]) :
                calls[p][i].call = "delete" =>
                    /\ Cardinality(AppliedBefore(p, i)) = Len(ps[p])
                    /\ \A j \in (i + 1)..Len(calls[p]) :
                         calls[p][j].call \notin {"create", "update"}
                    /\ \E pt \in Range(currentPoints[p]) : pt.UID = calls[p][i].uid
                    /\ calls[p][i].uid \notin processedUIDs[p]
                    /\ \A j \in AppliedBefore(p, Len(calls[p])) :
                         calls[p][j].uid # calls[p][i].uid

\* A delete call after an update call and a create call, the record of an
\* unknown type being the stale one.
C16_Witness ==
    \E p \in Procs :
        /\ op[p] = "cpUpdate" /\ Len(ps[p]) = 2
        /\ \E i \in 1..Len(calls[p]) :
             /\ calls[p][i].call = "delete" /\ calls[p][i].ok
             /\ \E j, k \in AppliedBefore(p, i) :
                  calls[p][j].call = "update" /\ calls[p][k].call = "create"

\* The handler the worker ran before was a reconciliation of the same
\* desired configuration that failed after some of its create and update
\* calls had succeeded.
RetriesFailed(p, o) ==
    /\ pre[p].prev.op = o
    /\ pre[p].prev.kind = "error"
    /\ pre[p].prev.applied > 0
    /\ pre[p].prev.fields = pre[p].fields

\* C17: a reconciliation in which every call succeeds, run after one of the
\* same desired configuration that failed partway through its apply loop,
\* leaves one record under the name for each desired instance, after a
\* failed first-time creation as after a failed update.
C17_RetryLeavesNoOrphan ==
    \A p \in Procs :
        (/\ pc[p] = "done" /\ Reconciles(p) /\ AllOk(p)
         /\ RetriesFailed(p, "cpCreate") \/ RetriesFailed(p, "cpUpdate"))
        => Cardinality(ByName(data[p].name)) = Len(ps[p])

\* The same for updates alone: the update that follows a failed update
\* deletes what the failed one created.
C17_UpdateAfterFailedUpdate ==
    \A p \in Procs :
        (/\ Done(p, "cpUpdate") /\ AllOk(p)
         /\ RetriesFailed(p, "cpUpdate"))
        => Cardinality(ByName(data[p].name)) = Len(ps[p])

\* An update succeeds after an update that failed behind a create call.
C17_UpdateWitness ==
    \E p \in Procs :
        /\ Done(p, "cpUpdate") /\ AllOk(p) /\ diags[p] = Ok
        /\ RetriesFailed(p, "cpUpdate")
        /\ Len(CallsOf(p, "delete")) > 0

\* C18: a first-time creation issues no list call before its create calls;
\* an update begins with the fetch by name, goes on to the apply loop with
\* no current record when the fetch answers not found, and then issues no
\* delete call, and returns the error of the fetch, with no other call
\* issued, when the fetch fails otherwise.
C18_FetchCurrent ==
    \A p \in Procs :
        /\ op[p] = "cpCreate" =>
              \A i, j \in 1..Len(calls[p]) :
                  (i < j /\ calls[p][i].call = "list") => calls[p][j].call = "list"
        /\ (op[p] = "cpUpdate" /\ calls[p] # <<>>) =>
              /\ calls[p][1].call = "list"
              /\ calls[p][1].ok =>
                    currentPoints[p] =
                        Listed({r \in pre[p].remote : r.Name = pre[p].id.name})
              /\ IsNotFoundError(calls[p][1].err) =>
                    /\ currentPoints[p] = <<>>
                    /\ CallsOf(p, "delete") = <<>>
                    /\ Len(calls[p]) = 1 => pc[p] = "apply"
              /\ (~calls[p][1].ok /\ ~IsNotFoundError(calls[p][1].err)) =>
                    /\ Len(calls[p]) = 1
                    /\ pc[p] = "done"
                    /\ diags[p] = FromErr(calls[p][1].err)

\* An update whose fetch was answered not found went on and created a record.
C18_Witness ==
    \E p \in Procs :
        /\ Done(p, "cpUpdate") /\ diags[p] = Ok
        /\ IsNotFoundError(calls[p][1].err)
        /\ Len(OkCallsOf(p, "create")) > 0

\* The instances of the prior state with the UID of the two records.
PriorOf == {c \in secure.prior : c.uid = secure.resp[1].UID}

C20_CancelEndsRetry ==
    \A p \in Procs :
        ctxDone[p] =>
            /\ pc[p] = "done"
            /\ diags[p].kind = "error"
            /\ calls[p] # <<>>
            /\ calls[p][Len(calls[p])].call = "create"
            /\ ~calls[p][Len(calls[p])].ok
            /\ ~TimedOut(elapsed[p])
            /\ CallsOf(p, "delete") = <<>>
            /\ lock # p

\* The context was done after the first failed attempt of an update that
\* had fetched a record to delete.
C20_Witness ==
    \E p \in Procs :
        /\ ctxDone[p] /\ pc[p] = "done" /\ op[p] = "cpUpdate"
        /\ elapsed[p] = 0
        /\ \E pt \in Range(currentPoints[p]) : ToDelete(pt, processedUIDs[p])

\* The UIDs of the instances of kind n in the state tree of worker p, and
\* the UIDs of the records of that kind its read fetched.
StateUIDs(p, n) == {x.uid : x \in data[p].fields[notifiers[n].field]}
FetchedUIDs(p, n) == {pt.UID : pt \in {q \in Range(points[p]) : q.Type = notifiers[n].typeStr}}
ReadOk(p) ==
    /\ pc[p] = "done"
    /\ op[p] \in {"cpRead", "cpImport", "cpCreate", "cpUpdate"}
    /\ diags[p] = Ok

\* C21: after a successful read, the instance list of every notifier kind in
\* the state tree holds exactly the fetched records of that kind's type; a
\* kind with no fetched record has an empty list.
C21_StateMatchesFetched ==
    \A p \in Procs :
        ReadOk(p) => \A n \in Kinds : StateUIDs(p, n) = FetchedUIDs(p, n)

\* The part of C21 that holds: a kind with a fetched record holds exactly
\* the fetched records of its type.
C21_KindsWithRecords ==
    \A p \in Procs :
        ReadOk(p) =>
            \A n \in Kinds :
                FetchedUIDs(p, n) # {} => StateUIDs(p, n) = FetchedUIDs(p, n)

\* A successful read that fetched a record of some kind and none of another.
C21_KindsWitness ==
    \E p \in Procs :
        /\ ReadOk(p) /\ op[p] = "cpRead"
        /\ \E n, m \in Kinds : FetchedUIDs(p, n) # {} /\ FetchedUIDs(p, m) = {}

\* The UIDs of the records the backend holds under the name of the contact
\* point of worker p.
RemoteUIDs(p) == {r.UID : r \in ByName(data[p].name)}

\* C22: after a successful reconciliation, first-time creation or update,
\* the records of the backend under the name of the contact point are
\* exactly those the reconciliation created or updated.
C22_OnlyDesiredRemain ==
    \A p \in Procs :
        (pc[p] = "done" /\ Reconciles(p) /\ diags[p] = Ok)
        => RemoteUIDs(p) = processedUIDs[p]

\* The part of C22 that holds: an update in which every call succeeded.
C22_UpdateOnlyDesiredRemain ==
    \A p \in Procs :
        (Done(p, "cpUpdate") /\ diags[p] = Ok /\ AllOk(p))
        => RemoteUIDs(p) = processedUIDs[p]

\* A successful update that deleted a record it had fetched.
C22_UpdateWitness ==
    \E p \in Procs :
        /\ Done(p, "cpUpdate") /\ diags[p] = Ok /\ AllOk(p)
        /\ CallsOf(p, "delete") # <<>>
        /\ processedUIDs[p] # {}

\* The records under the name of the resource when the handler of worker p
\* began.
RecordsBefore(p) == {r \in pre[p].remote : r.Name = ResName}

\* Worker q completes a top-level read while worker p is inside an update.
ReadsDuringUpdate(p, q) ==
    /\ p # q
    /\ op[p] = "cpUpdate" /\ pc[p] \in {"unpack", "fetch", "apply", "retrywait", "delete", "read"}
    /\ op[q] = "cpRead" /\ pc[q] = "read"
    /\ pc'[q] = "done" /\ diags'[q] = Ok

\* C23: a top-level read that completes while an update of the same contact
\* point is running packs the records as they were before the update began,
\* or as they are once the delete phase of the update has ended.
C23_ReadSeesNoIntermediate ==
    [][\A p, q \in Procs :
         ReadsDuringUpdate(p, q)
         => \/ Range(points'[q]) = RecordsBefore(p)
            \/ pc[p] = "read"]_vars

\* C24: whenever CreateUser returns an error, no user was created in the
\* backend or the ID of the created user is the identifier of the resource.
C24_CreateUserAllOrNothing ==
    (user.pc = "done" /\ user.diag.kind = "error")
    => (user.resp = 0 \/ user.id = user.resp)

\* The part of C24 that holds: a creation that declares no administrator.
C24_TrackedWithoutAdmin ==
    (user.pc = "done" /\ user.diag.kind = "error" /\ ~HasChange(user))
    => (user.resp = 0 \/ user.id = user.resp)

\* The read at the end of a creation failed after the user was created.
C24_TrackedWitness ==
    /\ user.pc = "done" /\ user.diag.kind = "error" /\ ~HasChange(user)
    /\ user.resp # 0 /\ user.id = user.resp

\* The worker is inside a create, update or delete handler of a contact
\* point or a mute timing: past its entry, not yet returned.
InHandler(p) ==
    /\ op[p] \in {"cpCreate", "cpUpdate", "cpDelete", "mtCreate", "mtUpdate", "mtDelete"}
    /\ pc[p] \notin {"idle", "lock", "done"}

\* C6: no two workers are at once inside a create, update or delete handler
\* of a contact point or a mute timing, so the backend calls of one such
\* handler, its trailing read included, are not interleaved with another's;
\* the mutex is held by the worker inside, and by no worker that returned.
C6_HandlersExclusive ==
    /\ \A p, q \in Procs : (InHandler(p) /\ InHandler(q)) => p = q
    /\ \A p \in Procs : InHandler(p) => lock = p
    /\ \A p \in Procs : pc[p] \in {"idle", "lock", "done"} => lock # p

\* A contact point handler is at its trailing read while a mute timing
\* handler waits for the mutex.
C6_Witness ==
    \E p, q \in Procs :
        /\ op[p] \in {"cpCreate", "cpUpdate"} /\ pc[p] = "read"
        /\ op[q] \in {"mtCreate", "mtDelete"} /\ pc[q] = "lock"

====
